---- MODULE Spec2Model ----
(***************************************************************************)
(* Model of info_hub_agent/agent.py: the three extractor tools             *)
(* get_hackernews_posts, get_github_trending_repos and get_deped_rss_feed. *)
(*                                                                         *)
(* A call of an extractor is a small process: it issues its GET(s), the    *)
(* remote site answers with a response or the transport raises, the body   *)
(* is parsed, rows/items are extracted one loop iteration at a time, and   *)
(* an envelope is returned.  Text is a sequence of tokens (characters or   *)
(* words); Python's None is the value None below, a str is Str(tokens).    *)
(***************************************************************************)
EXTENDS Integers, Sequences, FiniteSets, TLC

VARIABLES call, frame, env

vars == <<call, frame, env>>

(* ------------------------------ bounds -------------------------------- *)
MaxRows == 2
MaxItems == 2
NumCalls == 2

(* --------------------------- Python values ---------------------------- *)
None == [none |-> TRUE, s |-> <<>>]
Str(s) == [none |-> FALSE, s |-> s]
IsStr(x) == ~x.none
Truthy(x) == ~x.none /\ x.s # <<>>

ArgNone == [kind |-> "none", n |-> 0]
ArgInt(n) == [kind |-> "int", n |-> n]
ArgBad == [kind |-> "str", n |-> 0]

Min(a, b) == IF a < b THEN a ELSE b
Max(a, b) == IF a > b THEN a ELSE b

\* list[:n] for an int n (negative n counts from the end)
SliceTo(list, n) ==
    IF n >= 0 THEN SubSeq(list, 1, Min(n, Len(list)))
    ELSE SubSeq(list, 1, Max(Len(list) + n, 0))

(* ------------------------------- text --------------------------------- *)
Whitespace == {" ", "\n"}

RECURSIVE LStrip(_)
LStrip(s) == IF s # <<>> /\ Head(s) \in Whitespace THEN LStrip(Tail(s)) ELSE s

RECURSIVE RStrip(_)
RStrip(s) ==
    IF s # <<>> /\ s[Len(s)] \in Whitespace THEN RStrip(SubSeq(s, 1, Len(s) - 1)) ELSE s

Strip(s) == RStrip(LStrip(s))

\* str.replace(ch, "")
RECURSIVE Remove(_, _)
Remove(s, ch) ==
    IF s = <<>> THEN <<>>
    ELSE (IF Head(s) = ch THEN <<>> ELSE <<Head(s)>>) \o Remove(Tail(s), ch)

\* tag.stripped_strings: every text node stripped, the empty ones dropped
RECURSIVE StrippedStrings(_)
StrippedStrings(nodes) ==
    IF nodes = <<>> THEN <<>>
    ELSE (IF Strip(Head(nodes)) = <<>> THEN <<>> ELSE <<Strip(Head(nodes))>>)
         \o StrippedStrings(Tail(nodes))

\* sep.join(parts)
RECURSIVE Join(_, _)
Join(parts, sep) ==
    IF parts = <<>> THEN <<>>
    ELSE IF Len(parts) = 1 THEN Head(parts)
    ELSE Head(parts) \o sep \o Join(Tail(parts), sep)

\* tag.get_text(strip=True)
GetTextStrip(nodes) == Join(StrippedStrings(nodes), <<>>)

(* ------------------------- pages of the scrapers ----------------------- *)
\* An element of the page as the scrapers see it: marker = it matches the
\* find_all selector (tr.athing / article.Box-row), box = it holds the title
\* container (span.titleline / h2.h3), a = the container's first anchor.
NotARow == [marker |-> FALSE, box |-> FALSE, a |-> "none", href |-> <<>>, nodes |-> <<>>]
NoBox == [marker |-> TRUE, box |-> FALSE, a |-> "none", href |-> <<>>, nodes |-> <<>>]
NoAnchor == [marker |-> TRUE, box |-> TRUE, a |-> "none", href |-> <<>>, nodes |-> <<>>]
NoHref ==
    [marker |-> TRUE, box |-> TRUE, a |-> "nohref", href |-> <<>>, nodes |-> <<<<"ad">>>>]
RowA ==
    [marker |-> TRUE, box |-> TRUE, a |-> "href", href |-> <<"/", "o", "/", "r">>,
     nodes |-> <<<<"\n", " ">>, <<" ", "o", " ", "/">>, <<"\n", " ", "r", "\n">>>>]
RowB ==
    [marker |-> TRUE, box |-> TRUE, a |-> "href", href |-> <<"/", "x">>,
     nodes |-> <<<<" ", "x", " ", "y", "\n">>>>]

RowShapes == {NotARow, NoBox, NoAnchor, NoHref, RowA, RowB}

SeqUpTo(S, n) == UNION {[1..k -> S] : k \in 0..n}

Pages == SeqUpTo(RowShapes, MaxRows)

Statuses == {200, 404, 503}

Excs == {"ConnectionError", "Timeout"}

(* --------------------------- RSS feed bodies --------------------------- *)
\* An XML element as Element.find returns it: absent (find gives None),
\* present without text (.text is None), or present with text.
Absent == [present |-> FALSE, text |-> None]
Empty == [present |-> TRUE, text |-> None]
Txt(s) == [present |-> TRUE, text |-> Str(s)]

GoodDate ==
    <<"Wed", ",", " ", "0", "5", " ", "Mar", " ", "2", "0", "2", "5", " ",
      "1", "4", ":", "0", "7", ":", "0", "0", " ", "+0000">>
MidnightDate ==
    <<"Sat", ",", " ", "2", "9", " ", "Feb", " ", "2", "0", "2", "4", " ",
      "0", "0", ":", "3", "0", ":", "0", "0", " ", "+0800">>
Feb31Date ==
    <<"Mon", ",", " ", "3", "1", " ", "Feb", " ", "2", "0", "2", "5", " ",
      "0", "9", ":", "0", "0", ":", "0", "0", " ", "+0000">>
IsoDate == <<"2", "0", "2", "5", "-", "0", "3", "-", "0", "5">>

BaseItem ==
    [title |-> Txt(<<"t">>), link |-> Txt(<<"l">>), description |-> Txt(<<"d">>),
     pubDate |-> Txt(GoodDate), categories |-> <<Txt(<<"News">>)>>,
     creator |-> Txt(<<"c">>)]

ItemShapes ==
    {BaseItem,
     [BaseItem EXCEPT !.pubDate = Absent],
     [BaseItem EXCEPT !.pubDate = Empty, !.title = Absent],
     [BaseItem EXCEPT !.pubDate = Txt(IsoDate), !.creator = Absent],
     [BaseItem EXCEPT !.pubDate = Txt(Feb31Date), !.description = Absent,
                      !.creator = Empty],
     [BaseItem EXCEPT !.pubDate = Txt(MidnightDate), !.link = Absent,
                      !.categories = <<Empty, Txt(<<"Announcements">>)>>],
     [BaseItem EXCEPT !.title = Empty, !.link = Empty, !.description = Empty,
                      !.categories = <<>>]}

BaseChannel ==
    [title |-> Txt(<<"T">>), link |-> Txt(<<"L">>), description |-> Txt(<<"D">>),
     lastBuildDate |-> Txt(<<"B">>)]

ChannelFields == {"title", "link", "description", "lastBuildDate"}

ChannelShapes ==
    {BaseChannel}
    \cup {[BaseChannel EXCEPT ![f] = e] : f \in ChannelFields, e \in {Absent, Empty}}
    \cup {[f \in ChannelFields |-> e] : e \in {Absent, Empty}}

\* The document tree: the root element, its channel child (if any) and the
\* channel's item children in document order.
Tree(hasChannel, channel, items) ==
    [hasChannel |-> hasChannel, channel |-> channel, items |-> items]

\* a root without a channel child (the channel field is a filler, never read)
NoChannelTree == Tree(FALSE, BaseChannel, <<>>)

Trees ==
    {NoChannelTree}
    \cup {Tree(TRUE, ch, its) : ch \in ChannelShapes, its \in {<<>>, <<BaseItem>>}}
    \cup {Tree(TRUE, BaseChannel, its) : its \in SeqUpTo(ItemShapes, MaxItems)}

\* The bytes of a response body: the declared encoding, the kinds of its
\* segments in order ("xml" well-formed markup, "junk" bytes that are not
\* valid UTF-8, "broken" markup that is not well-formed) and the document
\* the well-formed markup spells.
Body(enc, segs, tree) == [enc |-> enc, segs |-> segs, tree |-> tree]

EmptyBody == Body("utf-8", <<>>, NoChannelTree)

SmallTrees ==
    {NoChannelTree, Tree(TRUE, BaseChannel, <<BaseItem>>),
     Tree(TRUE, [f \in ChannelFields |-> Absent], <<>>)}

DefectSegs ==
    {<<>>, <<"junk", "xml">>, <<"xml", "junk">>, <<"broken">>, <<"xml", "broken">>,
     <<"junk", "broken">>, <<"broken", "junk">>}

Bodies ==
    {Body("utf-8", <<"xml">>, t) : t \in Trees}
    \cup {Body("utf-8", segs, t) : segs \in DefectSegs, t \in SmallTrees}
    \cup {Body("unknown", <<"xml">>, t) : t \in SmallTrees}

\* bytes.decode('utf-8', errors='ignore').encode('utf-8')
RECURSIVE DropJunk(_)
DropJunk(segs) ==
    IF segs = <<>> THEN <<>>
    ELSE (IF Head(segs) = "junk" THEN <<>> ELSE <<Head(segs)>>) \o DropJunk(Tail(segs))

DecodeIgnoreEncodeUnchanged(body) == body
DecodeIgnoreEncode(body) == [body EXCEPT !.segs = DropJunk(body.segs)]

RECURSIVE FirstDefect(_)
FirstDefect(segs) ==
    IF segs = <<>> THEN "none"
    ELSE IF Head(segs) # "xml" THEN Head(segs)
    ELSE FirstDefect(Tail(segs))

\* ET.fromstring: the tree, or the exception it raises
FromString(body) ==
    IF body.enc # "utf-8"
    THEN [ok |-> FALSE, exc |-> "LookupError", text |-> "unknown encoding",
          tree |-> NoChannelTree]
    ELSE IF body.segs = <<>>
    THEN [ok |-> FALSE, exc |-> "ParseError", text |-> "no element found",
          tree |-> NoChannelTree]
    ELSE IF FirstDefect(body.segs) = "junk"
    THEN [ok |-> FALSE, exc |-> "ParseError", text |-> "not well-formed (invalid token)",
          tree |-> NoChannelTree]
    ELSE IF FirstDefect(body.segs) = "broken"
    THEN [ok |-> FALSE, exc |-> "ParseError", text |-> "mismatched tag",
          tree |-> NoChannelTree]
    ELSE [ok |-> TRUE, exc |-> "", text |-> "", tree |-> body.tree]

(* ------------------------------- dates --------------------------------- *)
Digits == <<"0", "1", "2", "3", "4", "5", "6", "7", "8", "9">>
IsDigit(ch) == \E i \in 1..10 : Digits[i] = ch
DigitVal(ch) == (CHOOSE i \in 1..10 : Digits[i] = ch) - 1
Pad2(n) == <<Digits[(n \div 10) + 1], Digits[(n % 10) + 1]>>

WeekdayAbbr == {"Mon", "Tue", "Wed", "Thu", "Fri", "Sat", "Sun"}
MonthAbbr ==
    <<"Jan", "Feb", "Mar", "Apr", "May", "Jun", "Jul", "Aug", "Sep", "Oct", "Nov", "Dec">>
MonthFull ==
    <<"January", "February", "March", "April", "May", "June", "July", "August",
      "September", "October", "November", "December">>
Zones == {"+0000", "+0800"}

IsLeap(y) == (y % 4 = 0 /\ y % 100 # 0) \/ y % 400 = 0
DaysIn(m, y) ==
    IF m = 2 THEN (IF IsLeap(y) THEN 29 ELSE 28)
    ELSE IF m \in {4, 6, 9, 11} THEN 30 ELSE 31

Num2(t, i) == 10 * DigitVal(t[i]) + DigitVal(t[i + 1])
Num4(t, i) == 100 * Num2(t, i) + Num2(t, i + 2)

\* the text has the layout of "%a, %d %b %Y %H:%M:%S %z"
MatchesFormat(t) ==
    /\ Len(t) = 23
    /\ t[1] \in WeekdayAbbr /\ t[2] = "," /\ t[3] = " "
    /\ IsDigit(t[4]) /\ IsDigit(t[5]) /\ t[6] = " "
    /\ (\E m \in 1..12 : MonthAbbr[m] = t[7]) /\ t[8] = " "
    /\ (\A i \in 9..12 : IsDigit(t[i])) /\ t[13] = " "
    /\ IsDigit(t[14]) /\ IsDigit(t[15]) /\ t[16] = ":"
    /\ IsDigit(t[17]) /\ IsDigit(t[18]) /\ t[19] = ":"
    /\ IsDigit(t[20]) /\ IsDigit(t[21]) /\ t[22] = " "
    /\ t[23] \in Zones

MonthOf(t) == CHOOSE m \in 1..12 : MonthAbbr[m] = t[7]

\* datetime.strptime(x, "%a, %d %b %Y %H:%M:%S %z") returns (no exception)
StrptimeOk(x) ==
    /\ IsStr(x)
    /\ MatchesFormat(x.s)
    /\ Num2(x.s, 4) \in 1..DaysIn(MonthOf(x.s), Num4(x.s, 9))
    /\ Num2(x.s, 14) \in 0..23
    /\ Num2(x.s, 17) \in 0..59
    /\ Num2(x.s, 20) \in 0..61

\* dt.strftime("%B %d, %Y at %I:%M %p") of the parsed date
Strftime(t) ==
    LET h == Num2(t, 14)
        h12 == IF h % 12 = 0 THEN 12 ELSE h % 12
    IN  <<MonthFull[MonthOf(t)], " ">> \o Pad2(Num2(t, 4)) \o <<",", " ">>
        \o SubSeq(t, 9, 12) \o <<" ", "at", " ">> \o Pad2(h12) \o <<":">>
        \o Pad2(Num2(t, 17)) \o <<" ", IF h < 12 THEN "AM" ELSE "PM">>

FormatDateBlank(pub_date) ==
    IF StrptimeOk(pub_date) THEN Str(Strftime(pub_date.s)) ELSE Str(<<>>)
\* lines 221-225: the reformatted date, or pub_date itself when anything raises
FormatDate(pub_date) ==
    IF StrptimeOk(pub_date) THEN Str(Strftime(pub_date.s)) ELSE pub_date

(* ------------------------- extraction (pure) --------------------------- *)
Fns == {"hackernews", "github", "deped"}
Scrapers == {"hackernews", "github"}

GithubHost == <<"https://github.com">>

\* soup.find_all(...): the elements matching the selector, in page order
RECURSIVE FindAll(_)
FindAll(page) ==
    IF page = <<>> THEN <<>>
    ELSE (IF Head(page).marker THEN <<Head(page)>> ELSE <<>>) \o FindAll(Tail(page))

HnEntry(row) == [title |-> GetTextStrip(row.nodes), link |-> row.href]

GhTitle(nodes) ==
    LET title_parts == StrippedStrings(nodes)
    IN  IF Len(title_parts) >= 2
        THEN Remove(Join(title_parts, <<" ">>), " ")
        ELSE Remove(Remove(GetTextStrip(nodes), "\n"), " ")

GhEntry(row) == [title |-> GhTitle(row.nodes), link |-> GithubHost \o row.href]

EntryOf(fn, row) == IF fn = "hackernews" THEN HnEntry(row) ELSE GhEntry(row)

ExtractRowKeepAll(fn, row) == <<EntryOf(fn, row)>>
\* one iteration of the row loop: the entries it appends (none or one)
ExtractRow(fn, row) ==
    IF row.box /\ row.a = "href" THEN <<EntryOf(fn, row)>> ELSE <<>>

\* X.find(f).text if X.find(f) is not None else ""
FieldText(elem) == IF elem.present THEN elem.text ELSE Str(<<>>)

FeedInfo(channel) ==
    [title |-> FieldText(channel.title),
     link |-> FieldText(channel.link),
     description |-> FieldText(channel.description),
     last_build_date |-> FieldText(channel.lastBuildDate)]

RECURSIVE Categories(_)
Categories(elems) ==
    IF elems = <<>> THEN <<>>
    ELSE (IF Truthy(Head(elems).text) THEN <<Head(elems).text>> ELSE <<>>)
         \o Categories(Tail(elems))

Creator(elem) == IF elem.present /\ Truthy(elem.text) THEN elem.text ELSE Str(<<>>)

\* one iteration of the item loop: the record it appends
ExtractItem(item) ==
    LET pub_date == FieldText(item.pubDate)
    IN  [title |-> FieldText(item.title),
         link |-> FieldText(item.link),
         description |-> FieldText(item.description),
         pub_date |-> pub_date,
         formatted_date |-> FormatDate(pub_date),
         categories |-> Categories(item.categories),
         creator |-> Creator(item.creator)]

(* ------------------------------ envelopes ------------------------------ *)
Pending == [status |-> "pending"]

ErrorPrefix(fn) ==
    CASE fn = "hackernews" -> "Error when trying to get hackernews posts: "
      [] fn = "github" -> "Error when trying to get trending repos: "
      [] OTHER -> "Error when trying to parse DepEd RSS feed: "

ErrorEnvelope(prefix, detail) ==
    [status |-> "error", error_message |-> <<prefix, detail>>]

ScraperSuccess(fn, list) ==
    IF fn = "hackernews" THEN [status |-> "success", posts |-> list]
    ELSE [status |-> "success", repos |-> list]

FeedSuccess(feed_info, items) ==
    [status |-> "success", feed_info |-> feed_info, items |-> items]

StatusError(status) ==
    ErrorEnvelope("Failed to fetch RSS feed. Status code: ", ToString(status))

ParseError(text) == ErrorEnvelope("Failed to parse RSS feed XML: ", text)

NoChannelError ==
    ErrorEnvelope("Invalid RSS feed format (no channel element found)", "")

\* the exception classes the model raises; all derive from Exception
ExceptionClasses == {"ConnectionError", "Timeout", "TypeError", "LookupError", "ParseError"}

CatchesTransportOnly(exc) == exc \in {"ConnectionError", "Timeout"}
\* "except Exception" of the outer try of each extractor
Catches(exc) == exc \in ExceptionClasses

SliceTypeError == "slice indices must be integers or None or have an __index__ method"

SliceRaises(arg) == arg.kind = "str"

\* channel.findall("item")[:max_items], for an argument that does not raise
Slice(list, arg) == IF arg.kind = "none" THEN list ELSE SliceTo(list, arg.n)

TruncateOneMore(list, arg) ==
    IF arg.kind = "none" THEN list ELSE SubSeq(list, 1, Min(arg.n + 1, Len(list)))
\* "if number_of_posts is not None: posts = posts[:number_of_posts]"
Truncate(list, arg) == IF arg.kind = "none" THEN list ELSE SliceTo(list, arg.n)

(* --------------------------- requests ---------------------------------- *)
PrimaryUrl(fn) ==
    CASE fn = "hackernews" -> "https://news.ycombinator.com/"
      [] fn = "github" -> "https://github.com/trending"
      [] OTHER -> "https://www.deped.gov.ph/feed/"

AlternateUrl == "https://www.deped.gov.ph/feed"

Response(status, body) == [kind |-> "response", status |-> status, body |-> body, exc |-> ""]
Raised(exc, body) == [kind |-> "exception", status |-> 0, body |-> body, exc |-> exc]

TryAlternateOnAnyFailure(n, outcome) ==
    n = 1 /\ (outcome.kind = "exception" \/ outcome.status # 200)
TryAlternateAgain(n, outcome) == outcome.kind = "response" /\ outcome.status # 200
\* the outcome of the n-th GET of the feed sends the call to the alternate URL
TryAlternate(n, outcome) ==
    n = 1 /\ outcome.kind = "response" /\ outcome.status # 200

(* ------------------------------ the calls ------------------------------ *)
DefaultMaxItems == 10

ArgInts == ((-1)..(MaxRows + 1)) \cup {DefaultMaxItems}
Args == {ArgNone, ArgBad} \cup {ArgInt(n) : n \in ArgInts}

\* what the remote sites and the transport can do during a run
FullEnv ==
    [pages |-> Pages, bodies |-> Bodies, errbodies |-> {EmptyBody},
     statuses |-> Statuses, excs |-> Excs, args |-> Args]

SmallEnv ==
    [pages |-> {<<NoHref, RowA>>},
     bodies |-> {Body("utf-8", <<"junk", "xml">>, Tree(TRUE, BaseChannel, <<BaseItem>>)),
                 Body("utf-8", <<"broken">>, NoChannelTree)},
     errbodies |-> {EmptyBody},
     statuses |-> {200, 404}, excs |-> {"Timeout"}, args |-> {ArgInt(1)}]

\* env names the environment of the run; Env is what it can do
Env == IF env = "full" THEN FullEnv ELSE SmallEnv

IdleCall ==
    [pc |-> "idle", fn |-> "hackernews", arg |-> ArgNone, reqs |-> <<>>, got |-> <<>>,
     parses |-> 0, tree |-> NoChannelTree, rows |-> <<>>, i |-> 1,
     feed_info |-> FeedInfo(BaseChannel), result |-> Pending, overlapped |-> FALSE]

Calls == DOMAIN call

FrameShared(c) == 1
\* the frame holding a call's local list (posts, repos, items): its own
Frame(c) == c

\* the call's state after an exception exc is raised inside the outer try
Raise(st, exc, text) ==
    IF Catches(exc)
    THEN [st EXCEPT !.pc = "done", !.result = ErrorEnvelope(ErrorPrefix(st.fn), text)]
    ELSE [st EXCEPT !.pc = "raised"]

Return(st, envelope) == [st EXCEPT !.pc = "done", !.result = envelope]

LastBody(st) == st.got[Len(st.got)].body

Outcomes(fn) ==
    IF fn \in Scrapers
    THEN {Response(s, b) : s \in Env.statuses, b \in Env.pages}
         \cup {Raised(e, <<>>) : e \in Env.excs}
    ELSE {Response(200, b) : b \in Env.bodies}
         \cup {Response(s, b) : s \in Env.statuses \ {200}, b \in Env.errbodies}
         \cup {Raised(e, EmptyBody) : e \in Env.excs}

\* some other call is between its invocation and its return
OthersRunning(c) == \E d \in Calls \ {c} : call[d].pc \notin {"idle", "done", "raised"}

\* the tool is called (overlapped only records that another call was running)
Invoke(c) ==
    /\ c \in Calls
    /\ call[c].pc = "idle"
    /\ \E fn \in Fns, arg \in Env.args :
          call' = [call EXCEPT ![c] = [@ EXCEPT !.pc = "get", !.fn = fn, !.arg = arg,
                                               !.overlapped = OthersRunning(c)]]
    /\ UNCHANGED <<frame, env>>

\* where SendGet is the call's next step
AtSendGet(c) ==
    /\ c \in Calls
    /\ call[c].pc = "get"

\* requests.get is entered: the request goes out
SendGet(c) ==
    /\ AtSendGet(c)
    /\ call' = [call EXCEPT ![c] =
                  [@ EXCEPT !.pc = "wait",
                            !.reqs = Append(@, IF Len(@) = 0 THEN PrimaryUrl(call[c].fn)
                                               ELSE AlternateUrl)]]
    /\ UNCHANGED <<frame, env>>

\* where ScraperReceive is the call's next step
AtScraperReceive(c) ==
    /\ c \in Calls
    /\ call[c].pc = "wait"
    /\ call[c].fn \in Scrapers

\* requests.get of a scraper ends; the page is parsed and the rows selected
ScraperReceive(c) ==
    /\ AtScraperReceive(c)
    /\ \E o \in Outcomes(call[c].fn) :
          LET st == [call[c] EXCEPT !.got = Append(@, o)]
          IN  IF o.kind = "exception"
              THEN /\ call' = [call EXCEPT ![c] = Raise(st, o.exc, o.exc)]
                   /\ UNCHANGED frame
              ELSE /\ call' = [call EXCEPT ![c] =
                                 [st EXCEPT !.pc = "rows", !.rows = FindAll(o.body),
                                            !.i = 1]]
                   /\ frame' = [frame EXCEPT ![Frame(c)] = <<>>]
    /\ UNCHANGED env

\* where ScraperRow is the call's next step
AtScraperRow(c) ==
    /\ c \in Calls
    /\ call[c].pc = "rows"
    /\ call[c].fn \in Scrapers
    /\ call[c].i <= Len(call[c].rows)

\* one iteration of "for row in post_rows" / "for article in repo_articles"
ScraperRow(c) ==
    /\ AtScraperRow(c)
    /\ frame' = [frame EXCEPT ![Frame(c)] =
                    @ \o ExtractRow(call[c].fn, call[c].rows[call[c].i])]
    /\ call' = [call EXCEPT ![c].i = @ + 1]
    /\ UNCHANGED env

\* where ScraperReturn is the call's next step
AtScraperReturn(c) ==
    /\ c \in Calls
    /\ call[c].pc = "rows"
    /\ call[c].fn \in Scrapers
    /\ call[c].i > Len(call[c].rows)

\* the loop is over: truncate and return
ScraperReturn(c) ==
    /\ AtScraperReturn(c)
    /\ call' = [call EXCEPT ![c] =
                  IF SliceRaises(call[c].arg)
                  THEN Raise(call[c], "TypeError", SliceTypeError)
                  ELSE Return(call[c],
                              ScraperSuccess(call[c].fn,
                                             Truncate(frame[Frame(c)], call[c].arg)))]
    /\ UNCHANGED <<frame, env>>

\* where FeedReceive is the call's next step
AtFeedReceive(c) ==
    /\ c \in Calls
    /\ call[c].pc = "wait"
    /\ call[c].fn = "deped"

\* a requests.get of the feed ends
FeedReceive(c) ==
    /\ AtFeedReceive(c)
    /\ \E o \in Outcomes("deped") :
          LET st == [call[c] EXCEPT !.got = Append(@, o)]
          IN  call' = [call EXCEPT ![c] =
                  IF TryAlternate(Len(call[c].reqs), o) THEN [st EXCEPT !.pc = "get"]
                  ELSE IF o.kind = "exception" THEN Raise(st, o.exc, o.exc)
                  ELSE IF o.status # 200 THEN Return(st, StatusError(o.status))
                  ELSE [st EXCEPT !.pc = "parse"]]
    /\ UNCHANGED <<frame, env>>

\* where FeedParse is the call's next step
AtFeedParse(c) ==
    /\ c \in Calls
    /\ call[c].pc = "parse"

\* root = ET.fromstring(response.content)
FeedParse(c) ==
    /\ AtFeedParse(c)
    /\ LET r == FromString(LastBody(call[c]))
           st == [call[c] EXCEPT !.parses = @ + 1]
       IN  call' = [call EXCEPT ![c] =
                  IF r.ok THEN [st EXCEPT !.pc = "channel", !.tree = r.tree]
                  ELSE IF r.exc = "ParseError" THEN [st EXCEPT !.pc = "recover"]
                  ELSE Raise(st, r.exc, r.text)]
    /\ UNCHANGED <<frame, env>>

\* where FeedRecover is the call's next step
AtFeedRecover(c) ==
    /\ c \in Calls
    /\ call[c].pc = "recover"

\* the except ET.ParseError branch: clean the bytes and parse again
FeedRecover(c) ==
    /\ AtFeedRecover(c)
    /\ LET r == FromString(DecodeIgnoreEncode(LastBody(call[c])))
           st == [call[c] EXCEPT !.parses = @ + 1]
       IN  call' = [call EXCEPT ![c] =
                  IF r.ok THEN [st EXCEPT !.pc = "channel", !.tree = r.tree]
                  ELSE IF r.exc = "ParseError" THEN Return(st, ParseError(r.text))
                  ELSE Raise(st, r.exc, r.text)]
    /\ UNCHANGED <<frame, env>>

\* where FeedChannel is the call's next step
AtFeedChannel(c) ==
    /\ c \in Calls
    /\ call[c].pc = "channel"

\* channel lookup, feed_info, and the sliced list of items to walk
FeedChannel(c) ==
    /\ AtFeedChannel(c)
    /\ IF ~call[c].tree.hasChannel
       THEN /\ call' = [call EXCEPT ![c] = Return(@, NoChannelError)]
            /\ UNCHANGED frame
       ELSE LET st == [call[c] EXCEPT !.feed_info = FeedInfo(call[c].tree.channel)]
            IN  /\ frame' = [frame EXCEPT ![Frame(c)] = <<>>]
                /\ call' = [call EXCEPT ![c] =
                       IF SliceRaises(call[c].arg)
                       THEN Raise(st, "TypeError", SliceTypeError)
                       ELSE [st EXCEPT !.pc = "items", !.i = 1,
                                       !.rows = Slice(call[c].tree.items, call[c].arg)]]
    /\ UNCHANGED env

\* where FeedItem is the call's next step
AtFeedItem(c) ==
    /\ c \in Calls
    /\ call[c].pc = "items"
    /\ call[c].i <= Len(call[c].rows)

\* one iteration of "for item in channel.findall("item")[:max_items]"
FeedItem(c) ==
    /\ AtFeedItem(c)
    /\ frame' = [frame EXCEPT ![Frame(c)] = Append(@, ExtractItem(call[c].rows[call[c].i]))]
    /\ call' = [call EXCEPT ![c].i = @ + 1]
    /\ UNCHANGED env

\* where FeedReturn is the call's next step
AtFeedReturn(c) ==
    /\ c \in Calls
    /\ call[c].pc = "items"
    /\ call[c].i > Len(call[c].rows)

\* the loop is over: return the success envelope
FeedReturn(c) ==
    /\ AtFeedReturn(c)
    /\ call' = [call EXCEPT ![c] =
                  Return(@, FeedSuccess(call[c].feed_info, frame[Frame(c)]))]
    /\ UNCHANGED <<frame, env>>

CallIds == 1..NumCalls

Next ==
    \/ \E c \in CallIds : Invoke(c)
    \/ \E c \in CallIds : SendGet(c)
    \/ \E c \in CallIds : ScraperReceive(c)
    \/ \E c \in CallIds : ScraperRow(c)
    \/ \E c \in CallIds : ScraperReturn(c)
    \/ \E c \in CallIds : FeedReceive(c)
    \/ \E c \in CallIds : FeedParse(c)
    \/ \E c \in CallIds : FeedRecover(c)
    \/ \E c \in CallIds : FeedChannel(c)
    \/ \E c \in CallIds : FeedItem(c)
    \/ \E c \in CallIds : FeedReturn(c)

\* one call, against everything the sites can answer
Init ==
    /\ call = [c \in {1} |-> IdleCall]
    /\ frame = [c \in {1} |-> <<>>]
    /\ env = "full"

Spec == Init /\ [][Next]_vars

\* several calls in flight at once
InitConc ==
    /\ call = [c \in 1..NumCalls |-> IdleCall]
    /\ frame = [c \in 1..NumCalls |-> <<>>]
    /\ env = "small"

SpecConc == InitConc /\ [][Next]_vars

(* ------------------- the extractors as pure functions ------------------ *)
\* the list the row loop builds from the selected rows
RECURSIVE ExtractAll(_, _)
ExtractAll(fn, rows) ==
    IF rows = <<>> THEN <<>>
    ELSE ExtractRow(fn, Head(rows)) \o ExtractAll(fn, Tail(rows))

\* the list the item loop builds
RECURSIVE ExtractItems(_)
ExtractItems(items) ==
    IF items = <<>> THEN <<>>
    ELSE <<ExtractItem(Head(items))>> \o ExtractItems(Tail(items))

CatchAll(fn, text) == ErrorEnvelope(ErrorPrefix(fn), text)

\* a scraper run on its own against the outcome of its GET
RunScraper(fn, arg, got) ==
    IF got[1].kind = "exception" THEN CatchAll(fn, got[1].exc)
    ELSE IF SliceRaises(arg) THEN CatchAll(fn, SliceTypeError)
    ELSE ScraperSuccess(fn, Truncate(ExtractAll(fn, FindAll(got[1].body)), arg))

\* the feed extractor from a parsed tree on
FeedFromTree(tree, arg) ==
    IF ~tree.hasChannel THEN NoChannelError
    ELSE IF SliceRaises(arg) THEN CatchAll("deped", SliceTypeError)
    ELSE FeedSuccess(FeedInfo(tree.channel), ExtractItems(Slice(tree.items, arg)))

\* the feed extractor from a 200 response body on
FeedFromBody(body, arg) ==
    LET r1 == FromString(body)
        r2 == FromString(DecodeIgnoreEncode(body))
    IN  IF r1.ok THEN FeedFromTree(r1.tree, arg)
        ELSE IF r1.exc # "ParseError" THEN CatchAll("deped", r1.text)
        ELSE IF r2.ok THEN FeedFromTree(r2.tree, arg)
        ELSE IF r2.exc # "ParseError" THEN CatchAll("deped", r2.text)
        ELSE ParseError(r2.text)

\* the feed extractor run on its own against the outcomes of its GETs
RunFeed(arg, got) ==
    IF got[1].kind = "exception" THEN CatchAll("deped", got[1].exc)
    ELSE IF got[1].status = 200 THEN FeedFromBody(got[1].body, arg)
    ELSE IF got[2].kind = "exception" THEN CatchAll("deped", got[2].exc)
    ELSE IF got[2].status = 200 THEN FeedFromBody(got[2].body, arg)
    ELSE StatusError(got[2].status)

RunAlone(fn, arg, got) ==
    IF fn \in Scrapers THEN RunScraper(fn, arg, got) ELSE RunFeed(arg, got)

(* ------------------------------ properties ----------------------------- *)
Done(c) == c \in Calls /\ call[c].pc = "done"
ScraperDone(c) == Done(c) /\ call[c].fn \in Scrapers
FeedDone(c) == Done(c) /\ call[c].fn = "deped"
Payload(c) ==
    IF call[c].fn = "hackernews" THEN call[c].result.posts ELSE call[c].result.repos
PayloadKeys(fn) ==
    CASE fn = "hackernews" -> {"posts"}
      [] fn = "github" -> {"repos"}
      [] OTHER -> {"feed_info", "items"}

WellFormedEnvelope(fn, r) ==
    \/ r.status = "success" /\ DOMAIN r = {"status"} \cup PayloadKeys(fn)
    \/ r.status = "error" /\ DOMAIN r = {"status", "error_message"}

\* the call is at one of its steps that need no answer from the network
AtLocalStep(c) ==
    \/ AtSendGet(c) \/ AtScraperRow(c) \/ AtScraperReturn(c)
    \/ AtFeedParse(c) \/ AtFeedRecover(c) \/ AtFeedChannel(c)
    \/ AtFeedItem(c) \/ AtFeedReturn(c)

\* the call waits for an answer, and whatever answer comes is handled
AtReceive(c) ==
    /\ AtScraperReceive(c) \/ AtFeedReceive(c)
    /\ \E o \in Outcomes(call[c].fn) : TRUE

\* C1: every call of an extractor, whatever its argument and whatever the
\* outcome of its GET(s), never lets an exception escape, can always take its
\* next step after any outcome until it has returned, and returns either a success envelope with
\* exactly the extractor's payload keys or an error envelope with exactly an
\* error_message.
C1_Total ==
    \A c \in Calls :
        /\ call[c].pc # "raised"
        /\ call[c].pc \notin {"idle", "done"} => AtLocalStep(c) \/ AtReceive(c)
        /\ call[c].pc = "done" => WellFormedEnvelope(call[c].fn, call[c].result)

\* a call whose slice raised TypeError on a bad argument returned the error envelope
C1_Witness ==
    \E c \in Calls :
        /\ Done(c) /\ call[c].arg = ArgBad /\ Len(call[c].got) = 1
        /\ call[c].got[1].kind = "response"
        /\ call[c].result = CatchAll(call[c].fn, SliceTypeError)

FeedStarted(c) == c \in Calls /\ call[c].fn = "deped" /\ call[c].pc # "idle"

\* the request discipline of the feed extractor, and the two-failures error
FeedRequestDiscipline(c) ==
    LET st == call[c]
    IN  /\ Len(st.reqs) <= 2
        /\ Len(st.reqs) >= 1 => st.reqs[1] = PrimaryUrl("deped")
        /\ Len(st.reqs) = 2 =>
              /\ st.reqs[2] = AlternateUrl
              /\ st.got[1].kind = "response" /\ st.got[1].status # 200
        /\ (Len(st.got) >= 1 /\ st.got[1].kind = "response" /\ st.got[1].status # 200) =>
              \/ st.pc = "get" /\ Len(st.reqs) = 1
              \/ Len(st.reqs) = 2
        /\ (Len(st.got) = 2 /\ st.got[2].kind = "response" /\ st.got[2].status # 200) =>
              /\ st.pc = "done" /\ Len(st.reqs) = 2
              /\ st.result.status = "error"
              /\ st.result.error_message[2] = ToString(st.got[2].status)

AlternateAnswersValidXml(c) ==
    /\ FeedDone(c) /\ Len(call[c].got) = 2
    /\ call[c].got[2].kind = "response" /\ call[c].got[2].status = 200
    /\ FromString(call[c].got[2].body).ok

ParsedContent(c) ==
    LET tree == FromString(call[c].got[2].body).tree
    IN  /\ call[c].result.status = "success"
        /\ call[c].result.feed_info = FeedInfo(tree.channel)
        /\ call[c].result.items = ExtractItems(Slice(tree.items, call[c].arg))

\* C2 as stated: the alternate URL is requested only after a non-200 primary
\* answer and exactly once; at most two GETs; a 200 alternate answer with valid
\* XML makes the call succeed with the parsed content; a second non-200 answer
\* gives the status-code error with no further request.
C2_Original ==
    \A c \in Calls : FeedStarted(c) =>
        /\ FeedRequestDiscipline(c)
        /\ AlternateAnswersValidXml(c) => ParsedContent(c)

\* C2 amended: as C2, but the 200 alternate answer makes the call succeed with
\* the parsed content when its valid XML has a channel element under the root
\* and max_items is an integer or None.
C2_Amended ==
    \A c \in Calls : FeedStarted(c) =>
        /\ FeedRequestDiscipline(c)
        /\ ( /\ AlternateAnswersValidXml(c)
             /\ FromString(call[c].got[2].body).tree.hasChannel
             /\ call[c].arg.kind # "str" ) => ParsedContent(c)

\* the alternate answered 200 after a non-200 primary and the items came back
C2_Witness ==
    \E c \in Calls :
        /\ AlternateAnswersValidXml(c) /\ Len(call[c].reqs) = 2
        /\ call[c].got[1].status = 404
        /\ call[c].result.status = "success" /\ Len(call[c].result.items) = 2

\* C3: a scraper call that succeeds with limit k >= 0 returns exactly the first
\* min(k, total_found) entries of the list extracted from the page, in page
\* order; with limit None it returns the whole extracted list.
C3_Prefix ==
    \A c \in Calls : (ScraperDone(c) /\ call[c].result.status = "success") =>
        LET all == ExtractAll(call[c].fn, FindAll(call[c].got[1].body))
            k == call[c].arg.n
        IN  /\ (call[c].arg.kind = "int" /\ k >= 0) =>
                  /\ Len(Payload(c)) = Min(k, Len(all))
                  /\ Payload(c) = SubSeq(all, 1, Min(k, Len(all)))
            /\ call[c].arg.kind = "none" => Payload(c) = all

\* limit 1 on a page with two extractable rows returned the first one only
C3_Witness ==
    \E c \in Calls :
        /\ ScraperDone(c) /\ call[c].arg = ArgInt(1)
        /\ call[c].got[1].body = <<RowB, RowA>>
        /\ call[c].result.status = "success"
        /\ Len(Payload(c)) = 1 /\ Payload(c)[1] = EntryOf(call[c].fn, RowB)

\* C4: a scraper whose GET is answered with a non-success HTTP status returns
\* an error envelope, never a success envelope.
C4_NonSuccessStatusIsError ==
    \A c \in Calls :
        (ScraperDone(c) /\ call[c].got[1].kind = "response" /\ call[c].got[1].status >= 400)
            => call[c].result.status = "error"

\* the 200 body the feed call parsed (the last response it got)
ParsedBody(c) == LastBody(call[c])

\* the first ET.fromstring of the call fails with ParseError
FirstParseFails(c) ==
    /\ FeedStarted(c) /\ call[c].parses >= 1
    /\ FromString(ParsedBody(c)).exc = "ParseError"

\* all that is wrong with the body is invalid UTF-8: it has well-formed markup,
\* no broken markup, and at least one run of invalid bytes
OnlyInvalidUtf8(body) ==
    /\ body.enc = "utf-8"
    /\ \E i \in 1..Len(body.segs) : body.segs[i] = "junk"
    /\ \E i \in 1..Len(body.segs) : body.segs[i] = "xml"
    /\ \A i \in 1..Len(body.segs) : body.segs[i] # "broken"

\* the body stays unparseable with the invalid bytes discarded
StillMalformed(body) ==
    /\ body.enc = "utf-8"
    /\ \/ \E i \in 1..Len(body.segs) : body.segs[i] = "broken"
       \/ \A i \in 1..Len(body.segs) : body.segs[i] # "xml"

\* the parser's message for a body that stays unparseable once cleaned
RecoveryErrorText(body) ==
    IF \E i \in 1..Len(body.segs) : body.segs[i] = "broken" THEN "mismatched tag"
    ELSE "no element found"

ItemTextFields == {"title", "link", "description", "pub_date"}

\* C6: in every success envelope of the feed extractor the four feed_info
\* fields and each item's title, link, description and pub_date are strings,
\* whatever the shape of the elements (absent, with text, without text).
C6_FieldsAreStrings ==
    \A c \in Calls : (FeedDone(c) /\ call[c].result.status = "success") =>
        /\ \A f \in DOMAIN call[c].result.feed_info : IsStr(call[c].result.feed_info[f])
        /\ \A i \in 1..Len(call[c].result.items) :
              \A f \in ItemTextFields : IsStr(call[c].result.items[i][f])

\* the items of the document the call walks: findall("item")[:max_items]
SourceItems(c) == Slice(call[c].tree.items, call[c].arg)

\* C7: every returned item whose pubDate does not parse under the RFC-822
\* pattern (empty or missing included) has formatted_date equal to its pub_date;
\* each returned item is the extraction of its own source item alone; and a
\* call that reached a channel with an integer or None max_items succeeds
\* whatever the dates are.
C7_DateFallback ==
    \A c \in Calls :
        /\ (FeedDone(c) /\ call[c].result.status = "success") =>
              /\ Len(call[c].result.items) = Len(SourceItems(c))
              /\ \A i \in 1..Len(SourceItems(c)) :
                    /\ ~StrptimeOk(FieldText(SourceItems(c)[i].pubDate)) =>
                          /\ call[c].result.items[i].pub_date
                                = FieldText(SourceItems(c)[i].pubDate)
                          /\ call[c].result.items[i].formatted_date
                                = call[c].result.items[i].pub_date
                    /\ call[c].result.items[i] = ExtractItem(SourceItems(c)[i])
        /\ (FeedDone(c) /\ call[c].tree.hasChannel /\ call[c].arg.kind # "str") =>
              call[c].result.status = "success"

\* an item with an unparseable date next to one whose date was reformatted
C7_Witness ==
    \E c \in Calls :
        /\ FeedDone(c) /\ call[c].result.status = "success"
        /\ Len(call[c].result.items) = 2
        /\ SourceItems(c)[1].pubDate = Txt(IsoDate)
        /\ call[c].result.items[1].formatted_date = Str(IsoDate)
        /\ StrptimeOk(FieldText(SourceItems(c)[2].pubDate))
        /\ call[c].result.items[2].formatted_date # call[c].result.items[2].pub_date

WellFormedRow(row) == row.marker /\ row.box /\ row.a = "href"

RECURSIVE WellFormedEntries(_, _)
WellFormedEntries(fn, page) ==
    IF page = <<>> THEN <<>>
    ELSE (IF WellFormedRow(Head(page)) THEN <<EntryOf(fn, Head(page))>> ELSE <<>>)
         \o WellFormedEntries(fn, Tail(page))

\* C8: in both scrapers a row lacking the container, the anchor or the href is
\* skipped and does not fail the call: a call whose GET was answered and whose
\* limit is an integer or None succeeds, its list holds one entry per
\* well-formed row in page order (cut to the limit) and none for a malformed
\* row, and a page without matching rows gives success with an empty list.
C8_SkipMalformed ==
    \A c \in Calls : (ScraperDone(c) /\ call[c].got[1].kind = "response") =>
        LET wf == WellFormedEntries(call[c].fn, call[c].got[1].body)
        IN  /\ call[c].arg.kind # "str" => call[c].result.status = "success"
            /\ call[c].result.status = "success" =>
                  /\ Payload(c) = IF call[c].arg.kind = "none" THEN wf
                                  ELSE SliceTo(wf, call[c].arg.n)
                  /\ FindAll(call[c].got[1].body) = <<>> => Payload(c) = <<>>

\* a page with a malformed row before a good one gave the good row's entry alone
C8_Witness ==
    \E c \in Calls :
        /\ ScraperDone(c) /\ call[c].arg = ArgNone
        /\ call[c].got[1].body = <<NoHref, RowA>>
        /\ call[c].result.status = "success"
        /\ Payload(c) = <<EntryOf(call[c].fn, RowA)>>

\* C9: under any interleaving of concurrent calls, every call returns the
\* envelope it returns when run alone with the same argument against the same
\* outcomes of its own requests.
C9_Isolation ==
    \A c \in Calls :
        Done(c) => call[c].result = RunAlone(call[c].fn, call[c].arg, call[c].got)

\* two calls of the same extractor overlapped and both returned their list
C9_Witness ==
    \E c \in Calls, d \in Calls :
        /\ c # d /\ Done(c) /\ Done(d) /\ call[d].overlapped
        /\ call[c].fn = call[d].fn /\ call[c].fn \in Scrapers
        /\ call[c].result.status = "success" /\ call[d].result.status = "success"
        /\ Len(Payload(c)) = 1 /\ Len(Payload(d)) = 1

\* C10: the alternate URL of the feed is requested only after a non-200
\* answer; a transport exception or timeout on the primary GET ends the call
\* with the catch-all error envelope after exactly one request, and one on the
\* alternate GET ends it with the catch-all error envelope after two.
C10_NoRetryOnException ==
    \A c \in Calls : FeedStarted(c) =>
        /\ Len(call[c].reqs) = 2 =>
              call[c].got[1].kind = "response" /\ call[c].got[1].status # 200
        /\ \A n \in 1..Len(call[c].got) :
              call[c].got[n].kind = "exception" =>
                  /\ call[c].pc = "done"
                  /\ Len(call[c].reqs) = n /\ Len(call[c].got) = n
                  /\ call[c].result = CatchAll("deped", call[c].got[n].exc)

\* the primary GET timed out and the call ended after its single request
C10_Witness ==
    \E c \in Calls :
        /\ FeedDone(c) /\ Len(call[c].reqs) = 1
        /\ call[c].got[1].kind = "exception" /\ call[c].got[1].exc = "Timeout"
        /\ call[c].result = CatchAll("deped", "Timeout")

====
